---- MODULE Spec2Model ----
(***************************************************************************)
(* Model of cextrema (src/src/cextrema.c): the scan of a 2D grid for local *)
(* maxima and minima in 3x3 neighbourhoods.                                 *)
(*                                                                         *)
(* One step of the model is one iteration of the body of the two outer     *)
(* loops (lines 30-68); Return is the exit of the outer loop (line 71).    *)
(* float samples are modelled by integers: the code only compares them     *)
(* with < and > (NaN is not modelled).                                     *)
(*                                                                         *)
(* size_t arithmetic is kept modulo 2^SizeBits, so that imax - 1 and       *)
(* jmax - 1 wrap for imax = 0 and jmax = 0 as they do in the code.         *)
(*                                                                         *)
(* min_index (lines 61-66) is not declared in cextrema and is never        *)
(* assigned before its first use: its value at entry is any value.         *)
(*                                                                         *)
(* An iteration that reads data[] outside its imax*jmax samples has        *)
(* undefined behaviour: the values read are arbitrary, so is_max and       *)
(* is_min are chosen nondeterministically, the writes of the iteration     *)
(* are recorded, and the run is not followed further (pc = "fault").       *)
(***************************************************************************)
EXTENDS Integers, FiniteSets, Sequences, TLC

\* ---- bounds of the model ------------------------------------------------
MaxRows == 4
MaxCols == 4
MaxCap == 2
SizeBits == 16

RECURSIVE Pow2(_)
Pow2(n) == IF n = 0 THEN 1 ELSE 2 * Pow2(n - 1)

\* size_t values are 0 .. SizeMod - 1
SizeMod == Pow2(SizeBits)

\* sample values of the grids explored
Values == {-1, 0, 1}

\* ---- inputs ---------------------------------------------------------------
Flat(n, b) == [k \in 0..(n - 1) |-> b]

\* the grids obtained from the grids of G by changing at most one sample
Perturb(G, n) == G \cup {[g EXCEPT ![c] = v] : g \in G, c \in 0..(n - 1), v \in Values}

\* flat grids, and the zero grid with at most two samples changed
Grids(n) == {Flat(n, b) : b \in Values} \cup Perturb(Perturb({Flat(n, 0)}, n), n)

\* the 5x5 grid of zeros except grid[2][2] = v
Spike5(v) == [k \in 0..24 |-> IF k = 2 * 5 + 2 THEN v ELSE 0]

Inputs ==
    UNION {{[rows |-> r, cols |-> c, grid |-> g] : g \in Grids(r * c)} :
               r \in 0..MaxRows, c \in 0..MaxCols}
    \cup {[rows |-> 5, cols |-> 5, grid |-> Spike5(v)] : v \in {-1, 1}}

\* values min_index may hold when cextrema is entered
MinIndexEntry == 0..MaxCap \cup {SizeMod - 1}

VARIABLES
    data, imax, jmax, min_max_length,     \* inputs (never written)
    extrema,                              \* the extrema map, by flat index
    maxima_x, maxima_y,                   \* list slots written so far: slot -> value
    minima_x, minima_y,
    maxima_length, minima_length,         \* the int& out-parameters
    min_index,
    i, j,                                 \* loop variables
    pc,                                   \* "scan", "done", "fault"
    evaluated,                            \* cells <<i, j>> whose body ran
    written                               \* flat indices of extrema[] written

vars == <<data, imax, jmax, min_max_length, extrema, maxima_x, maxima_y,
          minima_x, minima_y, maxima_length, minima_length, min_index,
          i, j, pc, evaluated, written>>

\* ---- the code ---------------------------------------------------------------
\* a - b in size_t
SizeSub(a, b) == (a - b + SizeMod) % SizeMod

\* i * jmax + j in size_t
Index(a, b, jm) == (a * jm + b) % SizeMod

\* for (i = 1; i < imax - 1; ++i)
RowCond(a, im) == a < SizeSub(im, 1)

\* mutant: the last column is scanned too
ColCondMut(b, jm) == b < jm

\* for (j = 1; j < jmax - 1; ++j)
ColCond(b, jm) == b < SizeSub(jm, 1)

\* mutant: the inner loops start at c
InnerMut(c) == {a \in c..(c + 1) : a < (c + 2) % SizeMod}

\* for (inner = c - 1; inner < c + 2; ++inner)
Inner(c) == {a \in SizeSub(c, 1)..(c + 1) : a < (c + 2) % SizeMod}

\* the flat indices read by the two inner loops
Neighbourhood(a, b, jm) == {Index(p, q, jm) : p \in Inner(a), q \in Inner(b)}

\* every read of the iteration lies within the im * jm samples
ReadsInBounds(a, b, im, jm) ==
    \A k \in Neighbourhood(a, b, jm) \cup {Index(a, b, jm)} : k < im * jm

\* mutant: the comparison of is_max is reversed
IsMaxMut(d, a, b, jm) ==
    \A k \in Neighbourhood(a, b, jm) : ~(d[k] < d[Index(a, b, jm)])

IsMax(d, a, b, jm) ==
    \A k \in Neighbourhood(a, b, jm) : ~(d[k] > d[Index(a, b, jm)])

IsMin(d, a, b, jm) ==
    \A k \in Neighbourhood(a, b, jm) : ~(d[k] < d[Index(a, b, jm)])

\* mutant: the minimum branch is tested first
BranchMut(is_max, is_min) == IF is_min THEN "min" ELSE IF is_max THEN "max" ELSE "none"

\* if (is_max) ... else if (is_min) ...
Branch(is_max, is_min) == IF is_max THEN "max" ELSE IF is_min THEN "min" ELSE "none"

\* mutant: off by one in the capacity test
MaxHasRoomMut(len, cap) == len <= cap

\* if (maxima_length < min_max_length)
MaxHasRoom(len, cap) == len < cap

\* if (min_index < min_max_length)
MinHasRoom(idx, cap) == idx < cap

\* x[k] = v
Store(x, k, v) == [s \in DOMAIN x \cup {k} |-> IF s = k THEN v ELSE x[s]]

\* mutant: the inner loop steps by two columns
AdvanceMut(a, b, jm) == IF ColCond(b + 2, jm) THEN <<a, b + 2>> ELSE <<a + 1, 1>>

\* the loop variables after ++j (and ++i, j = 1 when the inner loop ends)
Advance(a, b, jm) == IF ColCond(b + 1, jm) THEN <<a, b + 1>> ELSE <<a + 1, 1>>

Init ==
    /\ \E in \in Inputs :
          /\ data = in.grid
          /\ imax = in.rows
          /\ jmax = in.cols
          /\ extrema = Flat(in.rows * in.cols, 0)
    /\ min_max_length \in 0..MaxCap
    /\ min_index \in MinIndexEntry
    /\ maxima_x = << >> /\ maxima_y = << >>
    /\ minima_x = << >> /\ minima_y = << >>
    /\ maxima_length = 0
    /\ minima_length = 0
    /\ i = 1 /\ j = 1
    /\ pc = "scan"
    /\ evaluated = {}
    /\ written = {}

\* lines 49-68, for the given is_max and is_min
Classify(is_max, is_min) ==
    LET k == Index(i, j, jmax)
        b == Branch(is_max, is_min)
    IN  /\ IF b = "max"
           THEN /\ extrema' = Store(extrema, k, 1)
                /\ written' = written \cup {k}
                /\ IF MaxHasRoom(maxima_length, min_max_length)
                   THEN /\ maxima_x' = Store(maxima_x, maxima_length, i)
                        /\ maxima_y' = Store(maxima_y, maxima_length, j)
                        /\ maxima_length' = maxima_length + 1
                   ELSE UNCHANGED <<maxima_x, maxima_y, maxima_length>>
                /\ UNCHANGED <<minima_x, minima_y, min_index>>
           ELSE IF b = "min" /\ MinHasRoom(min_index, min_max_length)
           THEN /\ extrema' = Store(extrema, k, -1)
                /\ written' = written \cup {k}
                /\ minima_x' = Store(minima_x, min_index, i)
                /\ minima_y' = Store(minima_y, min_index, j)
                /\ min_index' = (min_index + 1) % SizeMod
                /\ UNCHANGED <<maxima_x, maxima_y, maxima_length>>
           ELSE UNCHANGED <<extrema, written, maxima_x, maxima_y, maxima_length,
                            minima_x, minima_y, min_index>>
        /\ UNCHANGED minima_length

\* one iteration of the body of the loops, lines 28-69
ScanCell ==
    /\ pc = "scan"
    /\ RowCond(i, imax)
    /\ ColCond(j, jmax)
    /\ evaluated' = evaluated \cup {<<i, j>>}
    /\ IF ReadsInBounds(i, j, imax, jmax)
       THEN /\ Classify(IsMax(data, i, j, jmax), IsMin(data, i, j, jmax))
            /\ i' = Advance(i, j, jmax)[1]
            /\ j' = Advance(i, j, jmax)[2]
            /\ pc' = "scan"
       ELSE /\ \E is_max, is_min \in BOOLEAN : Classify(is_max, is_min)
            /\ pc' = "fault"
            /\ UNCHANGED <<i, j>>
    /\ UNCHANGED <<data, imax, jmax, min_max_length>>

\* the outer loop ends (or only runs empty inner loops): cextrema returns
Return ==
    /\ pc = "scan"
    /\ ~(RowCond(i, imax) /\ ColCond(j, jmax))
    /\ pc' = "done"
    /\ UNCHANGED <<data, imax, jmax, min_max_length, extrema, maxima_x, maxima_y,
                   minima_x, minima_y, maxima_length, minima_length, min_index,
                   i, j, evaluated, written>>

Next == ScanCell \/ Return

Spec == Init /\ [][Next]_vars

\* ---- vocabulary of the properties (stated on the grid, not on the code) ------
ValidDims == imax >= 3 /\ jmax >= 3

\* the cells with a complete 3x3 block
Interior == {<<a, b>> : a \in 1..(imax - 2), b \in 1..(jmax - 2)}

Ring == {<<a, b>> \in (0..(imax - 1)) \X (0..(jmax - 1)) : <<a, b>> \notin Interior}

Cell(c) == c[1] * jmax + c[2]

Block(c) == {<<c[1] + da, c[2] + db>> : da \in -1..1, db \in -1..1}

NoGreater(c) == \A n \in Block(c) : data[Cell(n)] <= data[Cell(c)]

NoSmaller(c) == \A n \in Block(c) : data[Cell(n)] >= data[Cell(c)]

MaxEntries == {<<maxima_x[s], maxima_y[s]>> : s \in DOMAIN maxima_x}

MinEntries == {<<minima_x[s], minima_y[s]>> : s \in DOMAIN minima_x}

\* row-major order of cells
Before(c, d) == c[1] < d[1] \/ (c[1] = d[1] /\ c[2] < d[2])

Least(a, b) == IF a < b THEN a ELSE b

IsFlat == \A k \in DOMAIN data : \A l \in DOMAIN data : data[k] = data[l]

IsSpike5(v) == imax = 5 /\ jmax = 5 /\ data = Spike5(v)

\* C1: after a scan of a grid with rows, cols >= 3 and a zeroed map, an interior
\* cell marked +1 has no strictly greater value in its 3x3 block and an interior
\* cell marked -1 has no strictly smaller value in its 3x3 block.
C1_MarkedCellsAreExtrema ==
    (pc = "done" /\ ValidDims) =>
        \A c \in Interior :
            /\ extrema[Cell(c)] = 1 => NoGreater(c)
            /\ extrema[Cell(c)] = -1 => NoSmaller(c)

C1_Witness ==
    /\ pc = "done" /\ ValidDims
    /\ \E c \in Interior : extrema[Cell(c)] = 1 /\ ~NoSmaller(c)
    /\ \E c \in Interior : extrema[Cell(c)] = -1 /\ ~NoGreater(c)
    /\ \E c \in Interior : extrema[Cell(c)] = 0

\* C2: for rows, cols >= 3, in every state of the scan no cell of the outer ring
\* of the extrema map has been written and no coordinate of an outer-ring cell
\* is in the maxima or minima list.
C2_RingUntouched ==
    ValidDims =>
        /\ \A k \in written : \E c \in Interior : k = Cell(c)
        /\ \A c \in Ring : extrema[Cell(c)] = 0
        /\ MaxEntries \subseteq Interior
        /\ MinEntries \subseteq Interior

C2_Witness ==
    /\ pc = "done" /\ ValidDims
    /\ Cardinality(written) >= 2
    /\ MaxEntries # {}
    /\ MinEntries # {}

\* C3: in every state of a scan, for every grid and every capacity (0 included),
\* at most min_max_length entries have been written to the maxima list and to
\* the minima list, and no slot at an index >= min_max_length has been written.
C3_CapacityLaw ==
    /\ Cardinality(DOMAIN maxima_x) <= min_max_length
    /\ Cardinality(DOMAIN minima_x) <= min_max_length
    /\ \A s \in DOMAIN maxima_x \cup DOMAIN maxima_y : s >= 0 /\ s < min_max_length
    /\ \A s \in DOMAIN minima_x \cup DOMAIN minima_y : s >= 0 /\ s < min_max_length
    /\ maxima_length <= min_max_length

C3_Witness ==
    /\ pc = "done" /\ ValidDims
    /\ Cardinality(DOMAIN maxima_x) = min_max_length
    /\ Cardinality({c \in Interior : NoGreater(c)}) > min_max_length
    /\ Cardinality(DOMAIN minima_x) = min_max_length
    /\ min_max_length > 0

\* C4: after a scan with a zeroed map, for every grid and capacity, an interior
\* cell is an entry of the maxima list iff its map value is +1 and an entry of
\* the minima list iff its map value is -1, also beyond the capacity.
C4_MapAndListsAgree ==
    (pc = "done" /\ ValidDims) =>
        \A c \in Interior :
            /\ c \in MaxEntries <=> extrema[Cell(c)] = 1
            /\ c \in MinEntries <=> extrema[Cell(c)] = -1

\* C5: when cextrema returns, maxima_length is the number of pairs written to
\* maxima_x/maxima_y and minima_length the number of pairs written to
\* minima_x/minima_y.
C5_CountsReported ==
    pc = "done" =>
        /\ maxima_length = Cardinality(DOMAIN maxima_x)
        /\ minima_length = Cardinality(DOMAIN minima_x)

\* C6: for a flat grid with rows, cols >= 3, whatever the capacity, no cell is
\* ever marked -1, the minima list stays empty, and after the scan every
\* interior cell is marked +1.
C6_FlatGridAllMaxima ==
    (IsFlat /\ ValidDims) =>
        /\ \A k \in DOMAIN extrema : extrema[k] # -1
        /\ DOMAIN minima_x = {} /\ DOMAIN minima_y = {}
        /\ minima_length = 0
        /\ pc = "done" => \A c \in Interior : extrema[Cell(c)] = 1

C6_Witness ==
    /\ pc = "done" /\ IsFlat /\ ValidDims
    /\ Cardinality(Interior) > min_max_length
    /\ min_index < min_max_length
    /\ \A c \in Interior : extrema[Cell(c)] = 1

\* C7 as stated: the 5x5 grid of zeros except grid[2][2] = -1, capacity >= 1,
\* gives exactly one minimum, at (2,2), no +1 in the map and an empty maxima list.
C7_AsStated ==
    (pc = "done" /\ IsSpike5(-1) /\ min_max_length >= 1) =>
        /\ \A c \in Interior : extrema[Cell(c)] = -1 <=> c = <<2, 2>>
        /\ MinEntries = {<<2, 2>>}
        /\ \A k \in DOMAIN extrema : extrema[k] # 1
        /\ DOMAIN maxima_x = {}
        /\ maxima_length = 0

\* C7 amended: on that grid, with capacity >= 1, the eight interior cells around
\* (2,2) are all marked +1 and the maxima list holds the first
\* min(capacity, 8) of them; (2,2) is the only cell that can be marked -1 or
\* entered in the minima list, and it is never marked +1.
C7_SpikeDown ==
    (pc = "done" /\ IsSpike5(-1) /\ min_max_length >= 1) =>
        /\ \A c \in Interior \ {<<2, 2>>} : extrema[Cell(c)] = 1
        /\ extrema[Cell(<<2, 2>>)] \in {0, -1}
        /\ \A c \in Ring : extrema[Cell(c)] = 0
        /\ maxima_length = Least(min_max_length, 8)
        /\ Cardinality(MaxEntries) = Least(min_max_length, 8)
        /\ MaxEntries \subseteq Interior \ {<<2, 2>>}
        /\ <<1, 1>> \in MaxEntries
        /\ MinEntries \subseteq {<<2, 2>>}

C7_Witness ==
    /\ pc = "done" /\ IsSpike5(-1) /\ min_max_length >= 1
    /\ extrema[Cell(<<2, 2>>)] = -1
    /\ MinEntries = {<<2, 2>>}

\* C8 as stated: the 5x5 grid of zeros except grid[2][2] = 1, capacity >= 1,
\* gives exactly one maximum, at (2,2), no -1 in the map and an empty minima list.
C8_AsStated ==
    (pc = "done" /\ IsSpike5(1) /\ min_max_length >= 1) =>
        /\ \A c \in Interior : extrema[Cell(c)] = 1 <=> c = <<2, 2>>
        /\ MaxEntries = {<<2, 2>>}
        /\ maxima_length = 1
        /\ \A k \in DOMAIN extrema : extrema[k] # -1
        /\ DOMAIN minima_x = {}

\* C8 amended: on that grid, with capacity >= 1, there is exactly one maximum,
\* at (2,2): it is the only cell marked +1 and the only entry of the maxima
\* list, with maxima_length = 1; only the eight interior cells around (2,2)
\* can be marked -1 or entered in the minima list, at most capacity of them.
C8_SpikeUp ==
    (pc = "done" /\ IsSpike5(1) /\ min_max_length >= 1) =>
        /\ \A k \in DOMAIN extrema : extrema[k] = 1 <=> k = Cell(<<2, 2>>)
        /\ MaxEntries = {<<2, 2>>}
        /\ DOMAIN maxima_x = {0}
        /\ maxima_length = 1
        /\ \A c \in Ring : extrema[Cell(c)] = 0
        /\ MinEntries \subseteq Interior \ {<<2, 2>>}
        /\ MinEntries = {c \in Interior : extrema[Cell(c)] = -1}
        /\ Cardinality(MinEntries) <= min_max_length

C8_Witness ==
    /\ pc = "done" /\ IsSpike5(1) /\ min_max_length >= 1
    /\ extrema[Cell(<<2, 2>>)] = 1
    /\ Cardinality(MinEntries) = min_max_length

\* C9: for rows < 3 or cols < 3 (0 included, imax - 1 and jmax - 1 computed in
\* size_t), no cell is evaluated, no map cell is written and both lists end
\* empty with counts 0.
C9_SmallGridsUntouched ==
    (imax < 3 \/ jmax < 3) =>
        /\ evaluated = {}
        /\ written = {}
        /\ DOMAIN maxima_x = {} /\ DOMAIN minima_x = {}
        /\ maxima_length = 0 /\ minima_length = 0

\* the maxima list is a prefix of slots, in strict row-major order
MaximaOrdered ==
    /\ DOMAIN maxima_x = 0..(maxima_length - 1)
    /\ DOMAIN maxima_y = DOMAIN maxima_x
    /\ \A s \in DOMAIN maxima_x : \A t \in DOMAIN maxima_x :
          s < t => Before(<<maxima_x[s], maxima_y[s]>>, <<maxima_x[t], maxima_y[t]>>)

\* a step keeps every entry already written and writes at most the next slot
MaximaAppendOnly ==
    /\ \A s \in DOMAIN maxima_x :
          /\ s \in DOMAIN maxima_x' /\ maxima_x'[s] = maxima_x[s]
          /\ s \in DOMAIN maxima_y' /\ maxima_y'[s] = maxima_y[s]
    /\ (DOMAIN maxima_x') \ (DOMAIN maxima_x) \subseteq {maxima_length}
    /\ maxima_length' >= maxima_length

\* when the scan ends: the first min(capacity, M) of the M interior cells
\* without a strictly greater neighbour, in row-major order
MaximaTruncated ==
    pc = "done" =>
        LET S == {c \in Interior : NoGreater(c)}
        IN  /\ maxima_length = Least(min_max_length, Cardinality(S))
            /\ \A s \in DOMAIN maxima_x :
                  LET c == <<maxima_x[s], maxima_y[s]>>
                  IN  c \in S /\ Cardinality({d \in S : Before(d, c)}) = s

\* C10: at every step the maxima list is append-only and in strict row-major
\* order; when the scan ends it holds exactly the first min(capacity, M) of
\* the M interior cells with no strictly greater neighbour, in row-major order.
C10_MaximaList ==
    /\ [][MaximaAppendOnly]_vars
    /\ [](MaximaOrdered /\ MaximaTruncated)

C10_Witness ==
    /\ pc = "done" /\ ValidDims
    /\ maxima_length = 2
    /\ maxima_x[0] < maxima_x[1]
    /\ maxima_y[0] > maxima_y[1]
    /\ Cardinality({c \in Interior : NoGreater(c)}) > min_max_length

====
